---- MODULE Spec2Model ----
(***************************************************************************)
(* Ghost AI: a chat assistant with a rolling session window, a persisted   *)
(* user profile (JSON file) and a long-term memory (two vector-store       *)
(* collections).  Two programs share the design: the console program       *)
(* ghost.py ("cli") and the Flask program ghost_web.py ("web").            *)
(*                                                                         *)
(* Texts are modelled symbolically: a text is a sequence of pieces, each   *)
(* piece the first n characters of a named string, so that concatenation   *)
(* and the prefix slices s[:n] of the code are computed exactly.           *)
(***************************************************************************)
EXTENDS Integers, Sequences, FiniteSets, TLC

\* ------------------------------------------------------------------ bounds
\* Exchanges explored on a long session (the window overflows at the 11th).
MaxTurns == 11
\* Exchanges explored when the store and the profile are exercised.
FewTurns == 2
\* Rate calls that reach the store in one run.
MaxRates == 2
\* Failed completion calls in one run.
MaxFails == 1
\* Rate calls that reach the store on the long session.
LongRates == 0
\* Exchanges and rate calls explored on top of an earlier run's files.
ReturnTurns == 1
ReturnRates == 1
\* Rate calls that reach the store when two sessions are explored.
PairRates == 1
\* Exchanges, rate calls and failed completions of the threaded server.
ConcTurns == 2
ConcRates == 1
ConcFails == 0
\* Exchanges and rate calls of the threaded server under concurrent rating.
RaceTurns == 1
RaceRates == 2
\* Exchanges and rate calls of the threaded server with two session ids.
PairTurns == 2
PairConcRates == 1
\* Exchanges of the threaded server when a session is cleared during a turn.
ClearTurns == 2
ClearRates == 1
\* Request threads of the web server.
NumThreads == 2
\* Exchanges rated in an earlier run of the program (the returning scenario).
OldTurns == 4

\* ------------------------------------------------------- program constants
\* ghost.py:206 / ghost_web.py:213: the session window keeps 20 entries.
WindowCap == 20
\* ghost.py:220 / ghost_web.py:230: ratings from 4 up produce an insight.
InsightThreshold == 4
\* ghost.py:158 / ghost_web.py:164: memories asked for per context.
ContextLimit == 3
\* ghost.py:164: characters of a memory shown in the context (console).
CliMemoryChars == 400
\* ghost_web.py:169: characters of a memory shown in the context (web).
WebMemoryChars == 300
\* ghost.py:48: characters of the user message kept as preview.
CliPreviewChars == 100
\* ghost_web.py:50: characters of the user message kept in the metadata.
WebPreviewChars == 500
\* ghost.py:222: characters of the response kept in an insight (console).
CliInsightChars == 300
\* ghost_web.py:232: characters of the response kept in an insight (web).
WebInsightChars == 500
\* ghost.py:289 / ghost_web.py:292: the accepted ratings are 1..5.
MinRating == 1
MaxRating == 5

\* ------------------------------------------------------------------- texts
Min(a, b) == IF a <= b THEN a ELSE b

\* A literal string of the source, with its length.
Lit(s, n) == <<[src |-> <<"lit", s, 0>>, n |-> n]>>

RECURSIVE TLen(_)
TLen(t) == IF t = <<>> THEN 0 ELSE Head(t).n + TLen(Tail(t))

\* Python's s[:k].
RECURSIVE Take(_, _)
Take(t, k) ==
    IF t = <<>> \/ k <= 0 THEN <<>>
    ELSE IF Head(t).n <= k THEN <<Head(t)>> \o Take(Tail(t), k - Head(t).n)
    ELSE <<[src |-> Head(t).src, n |-> k]>>

\* Python's l[-k:] on a list.
LastN(l, k) == IF Len(l) <= k THEN l ELSE SubSeq(l, Len(l) - k + 1, Len(l))

\* The k-th message a user sends on a session and the model's answer to it.
\* Their lengths run through values on both sides of every slice limit.
ULens == <<20, 450, 120, 600>>
GLens == <<50, 350, 700, 520>>
UserText(sid, k) == <<[src |-> <<"user", sid, k>>, n |-> ULens[((k - 1) % 4) + 1]]>>
ReplyText(sid, k) == <<[src |-> <<"reply", sid, k>>, n |-> GLens[((k - 1) % 4) + 1]]>>

\* datetime.datetime.now().isoformat() at clock instant n: the strings are
\* kept as their instant, which orders them as the text does.
IsoFormat(n) == [iso |-> n]
\* The text of an ISO timestamp (26 characters).
IsoText(stamp) == <<[src |-> <<"iso", "", stamp.iso>>, n |-> 26]>>

\* ------------------------------------------------- Python values and JSON
PyStr(s) == [t |-> "str", s |-> s]
PyStamp(stamp) == [t |-> "stamp", stamp |-> stamp]
PyInt(i) == [t |-> "int", i |-> i]
PyList(l) == [t |-> "list", l |-> l]
PyDict(d) == [t |-> "dict", d |-> d]
EmptyDict == [k \in {} |-> PyStr("")]

JStr(s) == [j |-> "string", s |-> s]
JStamp(stamp) == [j |-> "stampstring", stamp |-> stamp]
JNum(i) == [j |-> "number", i |-> i]
JArr(l) == [j |-> "array", l |-> l]
JObj(d) == [j |-> "object", d |-> d]
NoFile == [j |-> "nofile"]

\* json.dump(value): str -> string, int -> number, list -> array,
\* dict -> object (a str holding a timestamp stays marked as one).
RECURSIVE JsonDump(_)
JsonDump(v) ==
    CASE v.t = "str" -> JStr(v.s)
      [] v.t = "stamp" -> JStamp(v.stamp)
      [] v.t = "int" -> JNum(v.i)
      [] v.t = "list" -> JArr([i \in DOMAIN v.l |-> JsonDump(v.l[i])])
      [] v.t = "dict" -> JObj([k \in DOMAIN v.d |-> JsonDump(v.d[k])])

\* json.load(file): string -> str, number -> int, array -> list,
\* object -> dict.
RECURSIVE JsonLoad(_)
JsonLoad(x) ==
    CASE x.j = "string" -> PyStr(x.s)
      [] x.j = "stampstring" -> PyStamp(x.stamp)
      [] x.j = "number" -> PyInt(x.i)
      [] x.j = "array" -> PyList([i \in DOMAIN x.l |-> JsonLoad(x.l[i])])
      [] x.j = "object" -> PyDict([k \in DOMAIN x.d |-> JsonLoad(x.d[k])])

\* d[key] = value on a Python dict.
DictSet(pd, key, value) ==
    PyDict([k \in (DOMAIN pd.d) \cup {key} |-> IF k = key THEN value ELSE pd.d[k]])

\* ------------------------------------------------------- long-term memory
\* A collection that also refuses a record whose document is already stored.
ChromaAddDedup(coll, rec) ==
    IF \E i \in DOMAIN coll : coll[i].id = rec.id \/ coll[i].document = rec.document
    THEN coll
    ELSE Append(coll, rec)

\* A collection that holds one record and forgets the one before.
ChromaAddEvicting(coll, rec) ==
    IF \E i \in DOMAIN coll : coll[i].id = rec.id THEN coll ELSE <<rec>>

\* chromadb's Collection.add: a record whose id is already stored is not
\* added again.
ChromaAdd(coll, rec) ==
    IF \E i \in DOMAIN coll : coll[i].id = rec.id THEN coll ELSE Append(coll, rec)

\* The orders in which the search engine is taken to rank a corpus: oldest
\* first or newest first.
Orders == {"oldest", "newest"}

\* chromadb's Collection.query: the n nearest documents, in rank order.
ChromaQuery(coll, n, order) ==
    [i \in 1..n |-> IF order = "oldest" THEN coll[i] ELSE coll[Len(coll) + 1 - i]]

\* `str(rating) if rating else "unrated"`
RatingStr(rating) == IF rating = 0 THEN "unrated" ELSE ToString(rating)

RatingLen(str) == IF str = "unrated" THEN 7 ELSE 1

\* The list of {content, timestamp, rating} built from a query result.
Memories(res) ==
    [i \in DOMAIN res |->
        [content |-> res[i].document,
         timestamp |-> res[i].metadata.timestamp,
         rating |-> res[i].metadata.rating]]

\* GhostMemory.remember_conversation (ghost.py), ts the clock instant read.
CliRememberConversation(coll, ts, user_msg, ghost_msg, rating) ==
    ChromaAdd(coll,
        [id |-> <<"mem", ts>>,
         document |-> Lit("User: ", 6) \o user_msg \o Lit("\n\nGhost: ", 9) \o ghost_msg,
         metadata |-> [timestamp |-> IsoFormat(ts),
                       rating |-> RatingStr(rating),
                       preview |-> Take(user_msg, CliPreviewChars)]])

\* A recall that asks the search engine whatever the store holds.
CliRecallAlways(coll, n_results, order) ==
    [queried |-> TRUE, n |-> Min(n_results, Len(coll)),
     memories |-> Memories(ChromaQuery(coll, Min(n_results, Len(coll)), order))]

\* GhostMemory.recall (ghost.py); `queried` tells whether the search engine
\* was asked, and `n` for how many results.
CliRecall(coll, n_results, order) ==
    IF Len(coll) = 0
    THEN [queried |-> FALSE, n |-> 0, memories |-> <<>>]
    ELSE [queried |-> TRUE, n |-> Min(n_results, Len(coll)),
          memories |-> Memories(ChromaQuery(coll, Min(n_results, Len(coll)), order))]

\* GhostMemory.learn (ghost.py).
CliLearn(coll, ts, insight, category) ==
    ChromaAdd(coll,
        [id |-> <<"learn", ts>>,
         document |-> insight,
         metadata |-> [category |-> category, timestamp |-> IsoFormat(ts)]])

\* ----------------------------------------------------------------- profile
\* UserProfile.load (ghost.py): the file's record, or the defaults.
CliLoad(file, ts) ==
    IF file # NoFile
    THEN JsonLoad(file)
    ELSE PyDict([k \in {"name", "preferences", "interests", "goals",
                        "communication_style", "total_chats", "created"} |->
                   CASE k = "name" -> PyStr("User")
                     [] k = "preferences" -> PyDict(EmptyDict)
                     [] k = "interests" -> PyList(<<>>)
                     [] k = "goals" -> PyList(<<>>)
                     [] k = "communication_style" -> PyStr("adaptive")
                     [] k = "total_chats" -> PyInt(0)
                     [] k = "created" -> PyStamp(IsoFormat(ts))])

\* A save that leaves the goals out of the file.
CliSaveWithoutGoals(prof) ==
    JsonDump(PyDict([k \in (DOMAIN prof.d) \ {"goals"} |-> prof.d[k]]))

\* UserProfile.save (ghost.py): the file content written.
CliSave(prof) == JsonDump(prof)

\* A turn that is not counted.
CliAddChatNone(prof) == prof

\* UserProfile.add_chat (ghost.py): the in-memory record after the increment.
CliAddChat(prof) == DictSet(prof, "total_chats", PyInt(prof.d["total_chats"].i + 1))

\* UserProfile.update (ghost.py).
CliUpdateProfile(prof, key, value) == DictSet(prof, key, value)

\* ----------------------------------------------------------------- context
\* A context that takes every memory whole.
CliBuildContextWhole(prof, memories) ==
    <<[kind |-> "profile", label |-> Lit("USER PROFILE:\n", 14), json |-> JsonDump(prof)]>>
    \o (IF memories # <<>>
        THEN <<[kind |-> "header", label |-> Lit("\nRELEVANT MEMORIES:", 19)]>>
             \o [i \in DOMAIN memories |->
                   [kind |-> "memory",
                    label |-> Lit("\n[Memory ", 9) \o Lit(ToString(i), 1)
                              \o Lit("] [Rating: ", 11)
                              \o Lit(memories[i].rating, RatingLen(memories[i].rating))
                              \o Lit("]\n", 2),
                    content |-> memories[i].content,
                    suffix |-> <<>>]]
        ELSE <<>>)

\* Ghost._build_context (ghost.py): the parts joined by "\n", in order.
CliBuildContext(prof, memories) ==
    <<[kind |-> "profile", label |-> Lit("USER PROFILE:\n", 14), json |-> JsonDump(prof)]>>
    \o (IF memories # <<>>
        THEN <<[kind |-> "header", label |-> Lit("\nRELEVANT MEMORIES:", 19)]>>
             \o [i \in DOMAIN memories |->
                   [kind |-> "memory",
                    label |-> Lit("\n[Memory ", 9) \o Lit(ToString(i), 1)
                              \o Lit("] [Rating: ", 11)
                              \o Lit(memories[i].rating, RatingLen(memories[i].rating))
                              \o Lit("]\n", 2),
                    content |-> Take(memories[i].content, CliMemoryChars),
                    suffix |-> <<>>]]
        ELSE <<>>)

\* --------------------------------------------------- ghost_web.py, pure parts
\* GhostMemory.add_conversation (ghost_web.py), ts the clock instant read.
WebAddConversation(coll, ts, user_msg, ai_msg, rating) ==
    ChromaAdd(coll,
        [id |-> <<"conv", ts>>,
         document |-> Lit("User: ", 6) \o user_msg \o Lit("\nGhost: ", 8) \o ai_msg,
         metadata |-> [timestamp |-> IsoFormat(ts),
                       rating |-> RatingStr(rating),
                       user_message |-> Take(user_msg, WebPreviewChars)]])

\* GhostMemory.search_memory (ghost_web.py); `queried` tells whether the
\* search engine was asked, and `n` for how many results.
WebSearchMemory(coll, n_results, order) ==
    IF Len(coll) = 0
    THEN [queried |-> FALSE, n |-> 0, memories |-> <<>>]
    ELSE [queried |-> TRUE, n |-> Min(n_results, Len(coll)),
          memories |-> Memories(ChromaQuery(coll, Min(n_results, Len(coll)), order))]

\* GhostMemory.add_knowledge (ghost_web.py).
WebAddKnowledge(coll, ts, text, category) ==
    ChromaAdd(coll,
        [id |-> <<"know", ts>>,
         document |-> text,
         metadata |-> [category |-> category, timestamp |-> IsoFormat(ts)]])

\* UserProfile.load_profile (ghost_web.py).
WebLoadProfile(file, ts) ==
    IF file # NoFile
    THEN JsonLoad(file)
    ELSE PyDict([k \in {"name", "preferences", "communication_style",
                        "expertise_areas", "goals", "total_chats", "created_at"} |->
                   CASE k = "name" -> PyStr("User")
                     [] k = "preferences" -> PyDict(EmptyDict)
                     [] k = "communication_style" -> PyStr("adaptive")
                     [] k = "expertise_areas" -> PyList(<<>>)
                     [] k = "goals" -> PyList(<<>>)
                     [] k = "total_chats" -> PyInt(0)
                     [] k = "created_at" -> PyStamp(IsoFormat(ts))])

\* UserProfile.save_profile (ghost_web.py): the file content written.
WebSaveProfile(prof) == JsonDump(prof)

\* self.profile.get("total_chats", 0)
WebTotalChats(prof) ==
    IF "total_chats" \in DOMAIN prof.d THEN prof.d["total_chats"].i ELSE 0

\* UserProfile.add_preference (ghost_web.py): the record after the update.
WebAddPreference(prof, key, value) ==
    DictSet(prof, "preferences", DictSet(prof.d["preferences"], key, PyStr(value)))

\* UserProfile.add_expertise_area (ghost_web.py): the record after the call.
WebAddExpertiseArea(prof, area) ==
    LET areas == IF "expertise_areas" \in DOMAIN prof.d
                 THEN prof.d["expertise_areas"].l ELSE <<>>
    IN IF \E i \in DOMAIN areas : areas[i] = PyStr(area)
       THEN prof
       ELSE DictSet(prof, "expertise_areas", PyList(Append(areas, PyStr(area))))

\* A context that announces the memories whether there are any or not.
WebBuildContextHeader(prof, memories) ==
    <<[kind |-> "profile", label |-> Lit("User Profile: ", 14), json |-> JsonDump(prof)],
      [kind |-> "header", label |-> Lit("\nRelevant past interactions:", 28)]>>
    \o [i \in DOMAIN memories |->
          [kind |-> "memory",
           label |-> Lit("\n", 1) \o Lit(ToString(i), 1) \o Lit(". [", 3)
                     \o IsoText(memories[i].timestamp) \o Lit("] ", 2),
           content |-> Take(memories[i].content, WebMemoryChars),
           suffix |-> Lit("...", 3)]]

\* Ghost._build_context (ghost_web.py): the parts joined by "\n", in order.
WebBuildContext(prof, memories) ==
    <<[kind |-> "profile", label |-> Lit("User Profile: ", 14), json |-> JsonDump(prof)]>>
    \o (IF memories # <<>>
        THEN <<[kind |-> "header", label |-> Lit("\nRelevant past interactions:", 28)]>>
             \o [i \in DOMAIN memories |->
                   [kind |-> "memory",
                    label |-> Lit("\n", 1) \o Lit(ToString(i), 1) \o Lit(". [", 3)
                              \o IsoText(memories[i].timestamp) \o Lit("] ", 2),
                    content |-> Take(memories[i].content, WebMemoryChars),
                    suffix |-> Lit("...", 3)]]
        ELSE <<>>)

\* ------------------------------------------------------------------- state
VARIABLES
    variant,        \* "cli" (ghost.py) or "web" (ghost_web.py)
    limits,         \* how far this run is explored
    now,            \* the last clock instant read for a record id
    reader,         \* web: the running handler that read `now`, else 0
    conversations,  \* GhostMemory.conversations: the stored records, oldest first
    knowledge,      \* GhostMemory.knowledge: the stored insights, oldest first
    profile,        \* UserProfile.profile: the in-memory record
    disk,           \* the content of ghost_profile.json, or NoFile
    saved,          \* the in-memory record handed to the last save
    session,        \* Ghost.session of ghost.py
    sessions,       \* Ghost.sessions of ghost_web.py: session id -> list object (0: no entry)
    heap,           \* the list objects of ghost_web.py: object -> its messages
    pc,             \* web: where each request thread stands
    req,            \* web: the request each thread is serving
    loc,            \* web: the local variables of each thread's handler
    sent,           \* per session: messages sent (a failed one is sent again)
    used,           \* rate calls and failed completions so far
    last            \* what the last finished operation did and returned

cfgVars == <<variant, limits>>
storeVars == <<now, reader, conversations, knowledge>>
profVars == <<profile, disk, saved>>
webVars == <<sessions, heap, pc, req, loc>>
vars == <<cfgVars, storeVars, profVars, session, webVars, sent, used, last>>

SessionIds == {"default", "s2"}
Sids == {"cli"} \cup SessionIds

\* /rate with no or a non-numeric argument.
NoArg == 0 - 1
RateArgs == {NoArg} \cup (0..(MaxRating + 1))

Msg(role, content) == [role |-> role, content |-> content]

Threads == 1..NumThreads
NoRecall == [queried |-> FALSE, n |-> 0, memories |-> <<>>]
NoReq == [op |-> "none", sid |-> "", k |-> 0, rating |-> 0]
NoLoc == [n |-> 0, session |-> 0, recall |-> NoRecall, stored |-> 0, context |-> <<>>,
          user_msg |-> <<>>, ai_msg |-> <<>>]

\* ------------------------------------------------------------ Ghost (cli)
\* A rating that earns an insight only at the top of the scale.
CliTopRated(rating) == rating > 4

\* Ghost.rate (ghost.py): if rating >= 4
CliHighlyRated(rating) == rating >= InsightThreshold

\* Ghost.rate (ghost.py) on a window and a memory [conversations, knowledge,
\* now]: the memory afterwards and the message returned.
CliRate(window, mem, rating) ==
    IF Len(window) >= 2
    THEN LET user_msg == window[Len(window) - 1].content
             ghost_msg == window[Len(window)].content
             convs == CliRememberConversation(mem.conversations, mem.now + 1,
                                              user_msg, ghost_msg, rating)
         IN IF CliHighlyRated(rating)
            THEN [conversations |-> convs,
                  knowledge |-> CliLearn(mem.knowledge, mem.now + 2,
                                   Lit("User appreciated: ", 18)
                                       \o Take(ghost_msg, CliInsightChars),
                                   "good_response"),
                  now |-> mem.now + 2,
                  result |-> "remember"]
            ELSE [conversations |-> convs,
                  knowledge |-> mem.knowledge,
                  now |-> mem.now + 1,
                  result |-> "learn"]
    ELSE [conversations |-> mem.conversations, knowledge |-> mem.knowledge,
          now |-> mem.now, result |-> "No response to rate yet."]

\* A window cut to an odd number of entries.
CliUpdateSessionOdd(window, user_message, ghost_response) ==
    LET appended == Append(Append(window, Msg("user", user_message)),
                           Msg("assistant", ghost_response))
    IN IF Len(appended) > WindowCap THEN LastN(appended, WindowCap - 1) ELSE appended

\* A window that keeps its first entries once it is full.
CliUpdateSessionKeepFirst(window, user_message, ghost_response) ==
    LET appended == Append(Append(window, Msg("user", user_message)),
                           Msg("assistant", ghost_response))
    IN IF Len(appended) > WindowCap THEN SubSeq(appended, 1, WindowCap) ELSE appended

\* Ghost.talk (ghost.py): the window after a completed exchange.
CliUpdateSession(window, user_message, ghost_response) ==
    LET appended == Append(Append(window, Msg("user", user_message)),
                           Msg("assistant", ghost_response))
    IN IF Len(appended) > WindowCap THEN LastN(appended, WindowCap) ELSE appended

Memory == [conversations |-> conversations, knowledge |-> knowledge, now |-> now]

\* Ghost.talk (ghost.py).  The completion call either returns the reply or
\* raises; main() catches the exception and prints it.
CliTalk(outcome) ==
    /\ variant = "cli"
    /\ sent["cli"] < limits.turns
    /\ outcome = "error" => used.fails < limits.fails
    /\ LET prof == CliAddChat(profile)
           k == sent["cli"] + 1
           user_message == UserText("cli", k)
       IN /\ profile' = prof
          /\ disk' = CliSave(prof)
          /\ saved' = prof
          /\ \E order \in Orders :
               LET rec == CliRecall(conversations, ContextLimit, order)
               IN last' = [op |-> "talk", status |-> outcome, sid |-> "cli",
                        recall |-> rec, stored |-> Len(conversations),
                        context |-> CliBuildContext(prof, rec.memories)]
          /\ IF outcome = "ok"
             THEN /\ session' = CliUpdateSession(session, user_message, ReplyText("cli", k))
                  /\ sent' = [sent EXCEPT !["cli"] = k]
                  /\ used' = used
             ELSE /\ session' = session
                  /\ sent' = sent
                  /\ used' = [used EXCEPT !.fails = @ + 1]
    /\ UNCHANGED <<cfgVars, storeVars, webVars>>

\* main (ghost.py): the /rate command.
CliRateCmd(arg) ==
    /\ variant = "cli"
    /\ IF arg = NoArg
       THEN /\ last' = [op |-> "rate", status |-> "usage", sid |-> "cli", arg |-> arg]
            /\ UNCHANGED <<now, conversations, knowledge, used>>
       ELSE IF MinRating <= arg /\ arg <= MaxRating
       THEN LET r == CliRate(session, Memory, arg)
            IN /\ Len(session) >= 2 => used.rates < limits.rates
               /\ conversations' = r.conversations
               /\ knowledge' = r.knowledge
               /\ now' = r.now
               /\ used' = IF Len(session) >= 2 THEN [used EXCEPT !.rates = @ + 1] ELSE used
               /\ last' = [op |-> "rate", status |-> r.result, sid |-> "cli", arg |-> arg]
       ELSE /\ last' = [op |-> "rate", status |-> "range", sid |-> "cli", arg |-> arg]
            /\ UNCHANGED <<now, conversations, knowledge, used>>
    /\ UNCHANGED <<cfgVars, reader, profVars, session, webVars, sent>>

\* A clear that keeps the last exchange in the window.
CliResetSessionKeepsLast ==
    /\ variant = "cli"
    /\ session' = LastN(session, 2)
    /\ last' = [op |-> "clear", status |-> "ok", sid |-> "cli"]
    /\ UNCHANGED <<cfgVars, storeVars, profVars, webVars, sent, used>>

\* Ghost.reset_session (ghost.py), the /clear command.
CliResetSession ==
    /\ variant = "cli"
    /\ session' = <<>>
    /\ last' = [op |-> "clear", status |-> "ok", sid |-> "cli"]
    /\ UNCHANGED <<cfgVars, storeVars, profVars, webVars, sent, used>>

\* Ghost.stats (ghost.py), the /stats command.
CliStats ==
    /\ variant = "cli"
    /\ last' = [op |-> "stats", status |-> "ok",
                total |-> profile.d["total_chats"].i,
                stored |-> Len(conversations),
                insights |-> Len(knowledge),
                interests |-> Len(profile.d["interests"].l),
                session_length |-> Len(session) \div 2]
    /\ UNCHANGED <<cfgVars, storeVars, profVars, session, webVars, sent, used>>

\* GhostMemory.recall (ghost.py) called with a limit of its own.
CliRecallCall(limit) ==
    /\ variant = "cli"
    /\ \E order \in Orders :
         LET rec == CliRecall(conversations, limit, order)
         IN last' = [op |-> "recall", status |-> "ok", limit |-> limit,
                  recall |-> rec, stored |-> Len(conversations)]
    /\ UNCHANGED <<cfgVars, storeVars, profVars, session, webVars, sent, used>>

\* An update that changes the record in memory and leaves the file alone.
CliUpdateUnsaved(key, value) ==
    /\ variant = "cli"
    /\ limits.edits
    /\ profile' = CliUpdateProfile(profile, key, value)
    /\ last' = [op |-> "update", status |-> "ok"]
    /\ UNCHANGED <<cfgVars, storeVars, disk, saved, session, webVars, sent, used>>

\* UserProfile.update (ghost.py) with a field of the record and a value.
CliUpdate(key, value) ==
    /\ variant = "cli"
    /\ limits.edits
    /\ profile' = CliUpdateProfile(profile, key, value)
    /\ disk' = CliSave(profile')
    /\ saved' = profile'
    /\ last' = [op |-> "update", status |-> "ok"]
    /\ UNCHANGED <<cfgVars, storeVars, session, webVars, sent, used>>

\* /quit and a new start of ghost.py: Ghost.__init__ opens the persisted
\* collections, loads the profile and starts an empty session.
CliRestart ==
    /\ variant = "cli"
    /\ limits.edits
    /\ profile' = CliLoad(disk, now)
    /\ session' = <<>>
    /\ last' = [op |-> "restart", status |-> "ok", file |-> disk # NoFile]
    /\ UNCHANGED <<cfgVars, storeVars, disk, saved, webVars, sent, used>>

UpdateInputs ==
    { <<"name", PyStr("Ann")>>,
      <<"goals", PyList(<<PyStr("ship")>>)>>,
      <<"preferences", PyDict([k \in {"tone"} |-> PyStr("brief")])>> }

Limits == {1, ContextLimit, 5}
HistoryLimits == {1, 50}
\* The ratings sent to the threaded server: none, one below and one at or
\* above the insight threshold.
ConcRateArgs == {NoArg, 2, MaxRating}
PreferenceInputs == { <<"tone", "brief">> }
Areas == { "tla" }

\* ------------------------------------------------------------- Ghost (web)
(***************************************************************************)
(* A handler of ghost_web.py is a sequence of statements.  Each statement  *)
(* is an operator from the world a thread sees (the shared objects and its *)
(* own request, position and locals) to the world after it.  Served one at *)
(* a time, a request runs its statements to the end in one action; served  *)
(* by threads, the statements of different requests interleave.            *)
(***************************************************************************)
AllIdle == \A t \in Threads : pc[t] = "idle"

TotalSent == sent["cli"] + sent["default"] + sent["s2"]

\* The list objects: a new object takes the smallest free name, and an object
\* nothing refers to any more is dropped.
Fresh(h) ==
    CHOOSE r \in 1..(Cardinality(DOMAIN h) + 1) :
        r \notin DOMAIN h /\ \A q \in 1..(r - 1) : q \in DOMAIN h

Alloc(h, val) ==
    [r \in (DOMAIN h) \cup {Fresh(h)} |-> IF r = Fresh(h) THEN val ELSE h[r]]

Collect(h, ss, lc) ==
    LET live == ({ss[sid] : sid \in SessionIds} \cup {lc[t].session : t \in Threads}) \ {0}
    IN [r \in (DOMAIN h) \cap live |-> h[r]]

\* The world as thread t sees it.
World(t) ==
    [me |-> t, pc |-> pc[t], req |-> req[t], loc |-> loc[t],
     profile |-> profile, disk |-> disk, saved |-> saved,
     sessions |-> sessions, heap |-> heap,
     conversations |-> conversations, knowledge |-> knowledge,
     now |-> now, reader |-> reader, sent |-> sent, used |-> used, last |-> last]

\* The variables after thread t's statements led to world w.
Install(t, w) ==
    /\ pc' = [pc EXCEPT ![t] = w.pc]
    /\ req' = [req EXCEPT ![t] = w.req]
    /\ loc' = [loc EXCEPT ![t] = w.loc]
    /\ profile' = w.profile
    /\ disk' = w.disk
    /\ saved' = w.saved
    /\ sessions' = w.sessions
    /\ heap' = Collect(w.heap, w.sessions, loc')
    /\ conversations' = w.conversations
    /\ knowledge' = w.knowledge
    /\ now' = w.now
    /\ reader' = w.reader
    /\ sent' = w.sent
    /\ used' = w.used
    /\ last' = w.last
    /\ UNCHANGED <<cfgVars, session>>

\* The handler ends with `result`: its locals are gone.
Finish(w, result) ==
    [w EXCEPT !.pc = "idle", !.req = NoReq, !.loc = NoLoc,
              !.reader = IF @ = w.me THEN 0 ELSE @,
              !.last = result]

\* A registry in which a new session id gets the list of a session already
\* there.
GetSessionShared(ss, h, sid) ==
    IF ss[sid] # 0
    THEN [sessions |-> ss, heap |-> h, ref |-> ss[sid]]
    ELSE IF \E o \in SessionIds : ss[o] # 0
    THEN LET o == CHOOSE o \in SessionIds : ss[o] # 0
         IN [sessions |-> [ss EXCEPT ![sid] = ss[o]], heap |-> h, ref |-> ss[o]]
    ELSE [sessions |-> [ss EXCEPT ![sid] = Fresh(h)], heap |-> Alloc(h, <<>>), ref |-> Fresh(h)]

\* Ghost.get_session (ghost_web.py): the registry and the objects after the
\* call, and the list returned.
GetSession(ss, h, sid) ==
    IF ss[sid] = 0
    THEN [sessions |-> [ss EXCEPT ![sid] = Fresh(h)], heap |-> Alloc(h, <<>>), ref |-> Fresh(h)]
    ELSE [sessions |-> ss, heap |-> h, ref |-> ss[sid]]

\* The clock instant read for a record id.  Time passes between two
\* requests served one after the other; two handlers running at once may
\* read the clock in the same instant (`same`).
ClockRead(w, same) == IF same /\ w.reader # 0 /\ w.reader # w.me THEN w.now ELSE w.now + 1

\* chat (route /api/chat): the request is read; an empty message is refused
\* with status 400, any other enters Ghost.chat.
ChatRoute(w, sid, empty) ==
    IF empty
    THEN Finish(w, [op |-> "chat", status |-> "400", sid |-> sid])
    ELSE [w EXCEPT !.pc = "c_read",
                   !.req = [op |-> "chat", sid |-> sid, k |-> w.sent[sid] + 1, rating |-> 0],
                   !.sent[sid] = @ + 1]

\* UserProfile.update_interaction_count: self.profile.get("total_chats", 0)
ChatRead(w) == [w EXCEPT !.loc.n = WebTotalChats(w.profile), !.pc = "c_write"]

\* UserProfile.update_interaction_count: self.profile["total_chats"] = ... + 1
ChatWrite(w) ==
    [w EXCEPT !.profile = DictSet(w.profile, "total_chats", PyInt(w.loc.n + 1)),
              !.pc = "c_save"]

\* UserProfile.update_interaction_count: self.save_profile()
ChatSave(w) ==
    [w EXCEPT !.disk = WebSaveProfile(w.profile), !.saved = w.profile, !.pc = "c_context"]

\* Ghost.chat: context = self._build_context(user_message)
ChatContext(w, order) ==
    LET rec == WebSearchMemory(w.conversations, ContextLimit, order)
    IN [w EXCEPT !.loc.recall = rec,
                 !.loc.stored = Len(w.conversations),
                 !.loc.context = WebBuildContext(w.profile, rec.memories),
                 !.pc = "c_session"]

\* Ghost.chat: session = self.get_session(session_id)
ChatSession(w) ==
    LET g == GetSession(w.sessions, w.heap, w.req.sid)
    IN [w EXCEPT !.sessions = g.sessions, !.heap = g.heap, !.loc.session = g.ref,
                 !.pc = "c_call"]

\* What the chat handler reports when it ends.
ChatResult(w, status) ==
    [op |-> "chat", status |-> status, sid |-> w.req.sid, recall |-> w.loc.recall,
     stored |-> w.loc.stored, context |-> w.loc.context]

\* A completion call whose failure leaves the user message in the window.
ChatCallKeepsMessage(w, outcome) ==
    IF outcome = "ok"
    THEN [w EXCEPT !.loc.ai_msg = ReplyText(w.req.sid, w.req.k), !.pc = "c_user"]
    ELSE Finish([w EXCEPT !.used.fails = @ + 1,
                          !.sent[w.req.sid] = IF @ = w.req.k THEN @ - 1 ELSE @,
                          !.heap[w.loc.session] =
                              Append(@, Msg("user", UserText(w.req.sid, w.req.k)))],
                ChatResult(w, "error"))

\* Ghost.chat: the completion call returns the reply, or raises and the route
\* answers with status 500 (the user then sends the message again).
ChatCall(w, outcome) ==
    IF outcome = "ok"
    THEN [w EXCEPT !.loc.ai_msg = ReplyText(w.req.sid, w.req.k), !.pc = "c_user"]
    ELSE Finish([w EXCEPT !.used.fails = @ + 1,
                          !.sent[w.req.sid] = IF @ = w.req.k THEN @ - 1 ELSE @],
                ChatResult(w, "error"))

\* Ghost.chat: session.append({"role": "user", ...})
ChatAppendUser(w) ==
    [w EXCEPT !.heap[w.loc.session] = Append(@, Msg("user", UserText(w.req.sid, w.req.k))),
              !.pc = "c_ai"]

\* Ghost.chat: session.append({"role": "assistant", ...})
ChatAppendAi(w) ==
    [w EXCEPT !.heap[w.loc.session] = Append(@, Msg("assistant", w.loc.ai_msg)),
              !.pc = "c_trunc"]

\* Ghost.chat: if len(session) > 20: session = session[-20:]
ChatTruncate(w) ==
    IF Len(w.heap[w.loc.session]) > WindowCap
    THEN [w EXCEPT !.heap = Alloc(w.heap, LastN(w.heap[w.loc.session], WindowCap)),
                   !.loc.session = Fresh(w.heap),
                   !.pc = "c_assign"]
    ELSE [w EXCEPT !.pc = "c_assign"]

\* A chat that stores every exchange in the long-term memory.
ChatAssignRemembers(w) ==
    Finish([w EXCEPT !.sessions[w.req.sid] = w.loc.session,
                     !.conversations =
                         WebAddConversation(w.conversations, w.now + 1,
                                            UserText(w.req.sid, w.req.k), w.loc.ai_msg, 0),
                     !.now = w.now + 1],
           ChatResult(w, "ok"))

\* Ghost.chat: self.sessions[session_id] = session; return ai_response
ChatAssign(w) ==
    Finish([w EXCEPT !.sessions[w.req.sid] = w.loc.session], ChatResult(w, "ok"))

\* A route that refuses only a missing rating.
RateRouteLax(w, sid, arg) ==
    IF arg = NoArg \/ arg = 0
    THEN Finish(w, [op |-> "rate", status |-> "400", sid |-> sid, arg |-> arg])
    ELSE [w EXCEPT !.pc = "r_session",
                   !.req = [op |-> "rate", sid |-> sid, k |-> 0, rating |-> arg]]

\* rate (route /api/rate): the request is read; a missing or out-of-range
\* rating is refused with status 400, any other enters rate_last_response.
RateRoute(w, sid, arg) ==
    IF arg = NoArg \/ arg = 0 \/ ~(MinRating <= arg /\ arg <= MaxRating)
    THEN Finish(w, [op |-> "rate", status |-> "400", sid |-> sid, arg |-> arg])
    ELSE [w EXCEPT !.pc = "r_session",
                   !.req = [op |-> "rate", sid |-> sid, k |-> 0, rating |-> arg]]

\* Ghost.rate_last_response: session = self.get_session(session_id)
RateSession(w) ==
    LET g == GetSession(w.sessions, w.heap, w.req.sid)
    IN [w EXCEPT !.sessions = g.sessions, !.heap = g.heap, !.loc.session = g.ref,
                 !.pc = "r_len"]

RateResult(w, status) ==
    [op |-> "rate", status |-> status, sid |-> w.req.sid, arg |-> w.req.rating]

\* Ghost.rate_last_response: if len(session) >= 2: ...; otherwise
\* return "No response to rate yet."
RateLen(w) ==
    IF Len(w.heap[w.loc.session]) >= 2
    THEN [w EXCEPT !.pc = "r_user"]
    ELSE Finish(w, RateResult(w, "No response to rate yet."))

\* Ghost.rate_last_response: user_msg = session[-2]["content"]
RateUser(w) ==
    [w EXCEPT !.loc.user_msg = w.heap[w.loc.session][Len(w.heap[w.loc.session]) - 1].content,
              !.pc = "r_ai"]

\* A rate call that takes the first reply of the window.
RateAiFirst(w) ==
    [w EXCEPT !.loc.ai_msg = w.heap[w.loc.session][2].content,
              !.pc = "r_add"]

\* Ghost.rate_last_response: ai_msg = session[-1]["content"]
RateAi(w) ==
    [w EXCEPT !.loc.ai_msg = w.heap[w.loc.session][Len(w.heap[w.loc.session])].content,
              !.pc = "r_add"]

\* Ghost.rate_last_response: conv_id = self.memory.add_conversation(...)
RateAdd(w, same) ==
    LET ts == ClockRead(w, same)
    IN [w EXCEPT !.conversations = WebAddConversation(w.conversations, ts, w.loc.user_msg,
                                                      w.loc.ai_msg, w.req.rating),
                 !.now = ts,
                 !.reader = w.me,
                 !.used.rates = @ + 1,
                 !.pc = "r_learn"]

\* Ghost.rate_last_response: if rating >= 4: self.memory.add_knowledge(...);
\* return the message.
RateLearn(w, same) ==
    LET ts == ClockRead(w, same)
    IN IF w.req.rating >= InsightThreshold
       THEN Finish([w EXCEPT !.knowledge = WebAddKnowledge(w.knowledge, ts,
                                              Lit("Good response pattern: ", 23)
                                                  \o Take(w.loc.ai_msg, WebInsightChars),
                                              "high_rated"),
                             !.now = ts],
                   RateResult(w, "saved"))
       ELSE Finish(w, RateResult(w, "saved"))

\* The next statement of the handler a thread is in.
Step(w, order, outcome, same) ==
    CASE w.pc = "c_read" -> ChatRead(w)
      [] w.pc = "c_write" -> ChatWrite(w)
      [] w.pc = "c_save" -> ChatSave(w)
      [] w.pc = "c_context" -> ChatContext(w, order)
      [] w.pc = "c_session" -> ChatSession(w)
      [] w.pc = "c_call" -> ChatCall(w, outcome)
      [] w.pc = "c_user" -> ChatAppendUser(w)
      [] w.pc = "c_ai" -> ChatAppendAi(w)
      [] w.pc = "c_trunc" -> ChatTruncate(w)
      [] w.pc = "c_assign" -> ChatAssign(w)
      [] w.pc = "r_session" -> RateSession(w)
      [] w.pc = "r_len" -> RateLen(w)
      [] w.pc = "r_user" -> RateUser(w)
      [] w.pc = "r_ai" -> RateAi(w)
      [] w.pc = "r_add" -> RateAdd(w, same)
      [] w.pc = "r_learn" -> RateLearn(w, same)

\* A handler run to its end with no other request in between.
RECURSIVE Run(_, _, _)
Run(w, order, outcome) ==
    IF w.pc = "idle" THEN w ELSE Run(Step(w, order, outcome, FALSE), order, outcome)

\* The list a session id stands for (no entry: nothing said yet).
WebWindow(sid) == IF sessions[sid] = 0 THEN <<>> ELSE heap[sessions[sid]]

ValidRating(arg) == MinRating <= arg /\ arg <= MaxRating

\* POST /api/chat served with no other request in between.
WebChat(sid, empty, order, outcome) ==
    /\ variant = "web"
    /\ AllIdle
    /\ sid \in limits.sids
    /\ ~empty => TotalSent < limits.turns
    /\ outcome = "error" => (~empty /\ used.fails < limits.fails)
    /\ Install(1, Run(ChatRoute(World(1), sid, empty), order, outcome))

\* POST /api/rate served with no other request in between.
WebRate(sid, arg) ==
    /\ variant = "web"
    /\ AllIdle
    /\ sid \in limits.sids
    /\ (ValidRating(arg) /\ Len(WebWindow(sid)) >= 2) => used.rates < limits.rates
    /\ Install(1, Run(RateRoute(World(1), sid, arg), "oldest", "ok"))

\* The threaded server hands a request to an idle thread (the lowest).
Takes(t) == pc[t] = "idle" /\ \A u \in 1..(t - 1) : pc[u] # "idle"

\* POST /api/chat taken by a thread of the threaded server.
WebChatRecv(t, sid, empty) ==
    /\ variant = "web"
    /\ Takes(t)
    /\ sid \in limits.sids
    /\ ~empty => TotalSent < limits.turns
    /\ Install(t, ChatRoute(World(t), sid, empty))

\* POST /api/rate taken by a thread of the threaded server.
WebRateRecv(t, sid, arg) ==
    /\ variant = "web"
    /\ Takes(t)
    /\ sid \in limits.sids
    /\ ValidRating(arg) =>
         used.rates + Cardinality({u \in Threads : req[u].op = "rate"}) < limits.rates
    /\ Install(t, RateRoute(World(t), sid, arg))

\* A thread of the threaded server executes its next statement.
WebStep(t, order, outcome, same) ==
    /\ variant = "web"
    /\ pc[t] # "idle"
    /\ (pc[t] = "c_call" /\ outcome = "error") => used.fails < limits.fails
    /\ Install(t, Step(World(t), order, outcome, same))

\* A clear that takes the session out of the registry.
WebClearSessionRemoves(sid) ==
    /\ variant = "web"
    /\ sid \in limits.sids
    /\ sessions' = [sessions EXCEPT ![sid] = 0]
    /\ heap' = Collect(heap, sessions', loc)
    /\ last' = [op |-> "clear", status |-> "ok", sid |-> sid]
    /\ UNCHANGED <<cfgVars, storeVars, profVars, session, pc, req, loc, sent, used>>

\* Ghost.clear_session (ghost_web.py).
WebClearSession(sid) ==
    /\ variant = "web"
    /\ sid \in limits.sids
    /\ IF sessions[sid] # 0
       THEN /\ sessions' = [sessions EXCEPT ![sid] = Fresh(heap)]
            /\ heap' = Collect(Alloc(heap, <<>>), sessions', loc)
       ELSE UNCHANGED <<sessions, heap>>
    /\ last' = [op |-> "clear", status |-> "ok", sid |-> sid]
    /\ UNCHANGED <<cfgVars, storeVars, profVars, session, pc, req, loc, sent, used>>

\* get_stats (route /api/stats) and Ghost.get_stats.
WebGetStats ==
    /\ variant = "web"
    /\ last' = [op |-> "stats", status |-> "ok",
                total_conversations |-> WebTotalChats(profile),
                stored_conversations |-> Len(conversations),
                stored_knowledge |-> Len(knowledge),
                expertise_areas |-> IF "expertise_areas" \in DOMAIN profile.d
                                    THEN profile.d["expertise_areas"].l ELSE <<>>]
    /\ UNCHANGED <<cfgVars, storeVars, profVars, session, webVars, sent, used>>

\* list.sort(key=timestamp, reverse=True): a stable sort, latest first.
RECURSIVE SortLatestFirst(_)
SortLatestFirst(l) ==
    IF l = <<>> THEN <<>>
    ELSE LET i == CHOOSE i \in DOMAIN l :
                    /\ \A j \in DOMAIN l : l[j].timestamp.iso <= l[i].timestamp.iso
                    /\ \A j \in 1..(i - 1) : l[j].timestamp.iso < l[i].timestamp.iso
         IN <<l[i]>> \o SortLatestFirst(SubSeq(l, 1, i - 1) \o SubSeq(l, i + 1, Len(l)))

\* get_history (route /api/history).
WebGetHistory(limit) ==
    /\ variant = "web"
    /\ LET count == Len(conversations)
           got == SubSeq(conversations, 1, Min(limit, count))
           history == [i \in DOMAIN got |->
                         [content |-> got[i].document,
                          timestamp |-> got[i].metadata.timestamp,
                          rating |-> got[i].metadata.rating,
                          preview |-> Take(got[i].document, 100)]]
       IN last' = [op |-> "history", status |-> "ok",
                   conversations |-> IF count = 0 THEN <<>> ELSE SortLatestFirst(history),
                   total |-> IF count = 0 THEN 0 ELSE Len(history)]
    /\ UNCHANGED <<cfgVars, storeVars, profVars, session, webVars, sent, used>>

\* GhostMemory.search_memory (ghost_web.py) called with a limit of its own.
WebSearchCall(limit) ==
    /\ variant = "web"
    /\ \E order \in Orders :
         LET rec == WebSearchMemory(conversations, limit, order)
         IN last' = [op |-> "recall", status |-> "ok", limit |-> limit,
                     recall |-> rec, stored |-> Len(conversations)]
    /\ UNCHANGED <<cfgVars, storeVars, profVars, session, webVars, sent, used>>

\* UserProfile.add_preference (ghost_web.py).
WebPreference(key, value) ==
    /\ variant = "web"
    /\ limits.edits
    /\ profile' = WebAddPreference(profile, key, value)
    /\ disk' = WebSaveProfile(profile')
    /\ saved' = profile'
    /\ last' = [op |-> "update", status |-> "ok"]
    /\ UNCHANGED <<cfgVars, storeVars, session, webVars, sent, used>>

\* UserProfile.add_expertise_area (ghost_web.py): saved only when added.
WebExpertise(area) ==
    /\ variant = "web"
    /\ limits.edits
    /\ profile' = WebAddExpertiseArea(profile, area)
    /\ IF profile' # profile
       THEN disk' = WebSaveProfile(profile') /\ saved' = profile'
       ELSE UNCHANGED <<disk, saved>>
    /\ last' = [op |-> "update", status |-> "ok"]
    /\ UNCHANGED <<cfgVars, storeVars, session, webVars, sent, used>>

\* The web process is started again: Ghost.__init__ opens the persisted
\* collections, loads the profile and starts with no sessions.
WebRestart ==
    /\ variant = "web"
    /\ AllIdle
    /\ limits.edits
    /\ profile' = WebLoadProfile(disk, now)
    /\ sessions' = [s \in SessionIds |-> 0]
    /\ heap' = <<>>
    /\ last' = [op |-> "restart", status |-> "ok", file |-> disk # NoFile]
    /\ UNCHANGED <<cfgVars, storeVars, disk, saved, session, pc, req, loc, sent, used>>

\* --------------------------------------------------------------- initially
\* How far a run is explored: a long session on a fresh install; a short
\* one with ratings and failed completions; two sessions side by side; or a
\* start on the files an earlier run left behind, with profile edits and
\* restarts.
Scenarios ==
    { [turns |-> MaxTurns, rates |-> LongRates, fails |-> 0, edits |-> FALSE,
       returning |-> FALSE, sids |-> {"default"}],
      [turns |-> FewTurns, rates |-> MaxRates, fails |-> MaxFails, edits |-> FALSE,
       returning |-> FALSE, sids |-> {"default"}],
      [turns |-> FewTurns, rates |-> PairRates, fails |-> 0, edits |-> FALSE,
       returning |-> FALSE, sids |-> SessionIds],
      [turns |-> ReturnTurns, rates |-> ReturnRates, fails |-> 0, edits |-> TRUE,
       returning |-> TRUE, sids |-> {"default"}] }

\* The memory a previous run of ghost.py left behind: four rated exchanges.
RECURSIVE CliOldMemory(_)
CliOldMemory(k) ==
    IF k = 0 THEN [conversations |-> <<>>, knowledge |-> <<>>, now |-> 0]
    ELSE LET r == CliRate(<<Msg("user", UserText("old", k)),
                            Msg("assistant", ReplyText("old", k))>>,
                          CliOldMemory(k - 1), <<5, 2, 4, 3>>[((k - 1) % 4) + 1])
         IN [conversations |-> r.conversations, knowledge |-> r.knowledge, now |-> r.now]

InitCli ==
    /\ variant = "cli"
    /\ limits.sids = {"default"}
    /\ \/ /\ ~limits.returning
          /\ conversations = <<>> /\ knowledge = <<>> /\ now = 0
          /\ disk = NoFile
       \/ /\ limits.returning
          /\ conversations = CliOldMemory(OldTurns).conversations
          /\ knowledge = CliOldMemory(OldTurns).knowledge
          /\ now = CliOldMemory(OldTurns).now
          /\ disk = CliSave(DictSet(CliLoad(NoFile, 0), "total_chats", PyInt(OldTurns)))
    /\ profile = CliLoad(disk, now)
    /\ saved = profile

\* The memory a previous run of ghost_web.py left behind.
RECURSIVE WebOldMemory(_)
WebOldMemory(k) ==
    IF k = 0 THEN [conversations |-> <<>>, knowledge |-> <<>>, now |-> 0]
    ELSE LET m == WebOldMemory(k - 1)
             rating == <<5, 2, 4, 3>>[((k - 1) % 4) + 1]
             convs == WebAddConversation(m.conversations, m.now + 1, UserText("old", k),
                                         ReplyText("old", k), rating)
         IN IF rating >= InsightThreshold
            THEN [conversations |-> convs,
                  knowledge |-> WebAddKnowledge(m.knowledge, m.now + 2,
                                   Lit("Good response pattern: ", 23)
                                       \o Take(ReplyText("old", k), WebInsightChars),
                                   "high_rated"),
                  now |-> m.now + 2]
            ELSE [conversations |-> convs, knowledge |-> m.knowledge, now |-> m.now + 1]

InitWeb ==
    /\ variant = "web"
    /\ \/ /\ ~limits.returning
          /\ conversations = <<>> /\ knowledge = <<>> /\ now = 0
          /\ disk = NoFile
       \/ /\ limits.returning
          /\ conversations = WebOldMemory(OldTurns).conversations
          /\ knowledge = WebOldMemory(OldTurns).knowledge
          /\ now = WebOldMemory(OldTurns).now
          /\ disk = WebSaveProfile(DictSet(WebLoadProfile(NoFile, 0), "total_chats",
                                           PyInt(OldTurns)))
    /\ profile = WebLoadProfile(disk, now)
    /\ saved = profile

Init ==
    /\ limits \in Scenarios
    /\ sent = [s \in Sids |-> 0]
    /\ used = [rates |-> 0, fails |-> 0]
    /\ last = [op |-> "init", status |-> "ok"]
    /\ reader = 0
    /\ session = <<>>
    /\ sessions = [s \in SessionIds |-> 0]
    /\ heap = <<>>
    /\ pc = [t \in Threads |-> "idle"]
    /\ req = [t \in Threads |-> NoReq]
    /\ loc = [t \in Threads |-> NoLoc]
    /\ (InitCli \/ InitWeb)

NextCli ==
    \/ \E outcome \in {"ok", "error"} : CliTalk(outcome)
    \/ \E arg \in RateArgs : CliRateCmd(arg)
    \/ CliResetSession
    \/ CliStats
    \/ \E limit \in Limits : CliRecallCall(limit)
    \/ \E kv \in UpdateInputs : CliUpdate(kv[1], kv[2])
    \/ CliRestart

NextWeb ==
    \/ \E sid \in SessionIds, empty \in BOOLEAN, order \in Orders, outcome \in {"ok", "error"} :
         WebChat(sid, empty, order, outcome)
    \/ \E sid \in SessionIds, arg \in RateArgs : WebRate(sid, arg)
    \/ \E sid \in SessionIds : WebClearSession(sid)
    \/ WebGetStats
    \/ \E limit \in HistoryLimits : WebGetHistory(limit)
    \/ \E limit \in Limits : WebSearchCall(limit)
    \/ \E kv \in PreferenceInputs : WebPreference(kv[1], kv[2])
    \/ \E area \in Areas : WebExpertise(area)
    \/ WebRestart

Next == NextCli \/ NextWeb

Spec == Init /\ [][Next]_vars

\* The threaded web server: the statements of requests interleave.
ConcScenarios ==
    { [turns |-> ConcTurns, rates |-> ConcRates, fails |-> ConcFails,
       edits |-> FALSE, returning |-> FALSE, sids |-> {"default"}] }

ConcStart ==
    /\ sent = [s \in Sids |-> 0]
    /\ used = [rates |-> 0, fails |-> 0]
    /\ last = [op |-> "init", status |-> "ok"]
    /\ reader = 0
    /\ session = <<>>
    /\ sessions = [s \in SessionIds |-> 0]
    /\ heap = <<>>
    /\ pc = [t \in Threads |-> "idle"]
    /\ req = [t \in Threads |-> NoReq]
    /\ loc = [t \in Threads |-> NoLoc]
    /\ InitWeb

InitConc == limits \in ConcScenarios /\ ConcStart

NextConc ==
    \/ \E t \in Threads, sid \in SessionIds, empty \in BOOLEAN : WebChatRecv(t, sid, empty)
    \/ \E t \in Threads, sid \in SessionIds, arg \in ConcRateArgs : WebRateRecv(t, sid, arg)
    \/ \E t \in Threads :
         \E order \in IF pc[t] = "c_context" THEN Orders ELSE {"oldest"},
            outcome \in IF pc[t] = "c_call" THEN {"ok", "error"} ELSE {"ok"},
            same \in IF pc[t] \in {"r_add", "r_learn"} THEN BOOLEAN ELSE {FALSE} :
           WebStep(t, order, outcome, same)
    \/ \E sid \in SessionIds : WebClearSession(sid)
    \/ WebGetStats

SpecConc == InitConc /\ [][NextConc]_vars

\* The threaded web server under rate requests: one exchange, then rate
\* calls that may run at once.
InitRace ==
    /\ limits = [turns |-> RaceTurns, rates |-> RaceRates, fails |-> 0,
                 edits |-> FALSE, returning |-> FALSE, sids |-> {"default"}]
    /\ ConcStart

SpecRace == InitRace /\ [][NextConc]_vars

\* The threaded web server with requests on two session ids.
InitPair ==
    /\ limits = [turns |-> PairTurns, rates |-> PairConcRates, fails |-> 0,
                 edits |-> FALSE, returning |-> FALSE, sids |-> SessionIds]
    /\ ConcStart

\* No request on session sid is running.
NoneOn(sid) == \A t \in Threads : pc[t] = "idle" \/ req[t].sid # sid

\* Requests that run at once are on distinct session ids.
NextPair ==
    \/ \E t \in Threads, sid \in SessionIds, empty \in BOOLEAN :
         NoneOn(sid) /\ WebChatRecv(t, sid, empty)
    \/ \E t \in Threads, sid \in SessionIds, arg \in ConcRateArgs :
         NoneOn(sid) /\ WebRateRecv(t, sid, arg)
    \/ \E t \in Threads :
         \E order \in IF pc[t] = "c_context" THEN Orders ELSE {"oldest"},
            outcome \in IF pc[t] = "c_call" THEN {"ok", "error"} ELSE {"ok"},
            same \in IF pc[t] \in {"r_add", "r_learn"} THEN BOOLEAN ELSE {FALSE} :
           WebStep(t, order, outcome, same)
    \/ \E sid \in SessionIds : NoneOn(sid) /\ WebClearSession(sid)

SpecPair == InitPair /\ [][NextPair]_vars

\* The threaded web server with one chat turn at a time and clear_session
\* called while the turn waits for the completion call.
InitClear ==
    /\ limits = [turns |-> ClearTurns, rates |-> ClearRates, fails |-> 0,
                 edits |-> FALSE, returning |-> FALSE, sids |-> {"default"}]
    /\ ConcStart

\* A chat turn on session sid is waiting for the completion call.
Waiting(sid) == \E t \in Threads : pc[t] = "c_call" /\ req[t].sid = sid

NextClear ==
    \/ \E t \in Threads, sid \in SessionIds, empty \in BOOLEAN :
         NoneOn(sid) /\ WebChatRecv(t, sid, empty)
    \/ \E t \in Threads, sid \in SessionIds, arg \in ConcRateArgs :
         NoneOn(sid) /\ WebRateRecv(t, sid, arg)
    \/ \E t \in Threads :
         \E order \in IF pc[t] = "c_context" THEN Orders ELSE {"oldest"} :
           WebStep(t, order, "ok", FALSE)
    \/ \E sid \in SessionIds : Waiting(sid) /\ WebClearSession(sid)

SpecClear == InitClear /\ [][NextClear]_vars

\* ------------------------------------------------------------------ claims
\* The window a session id stands for in the running program.
Window(sid) == IF sid = "cli" THEN session ELSE WebWindow(sid)

LiveSids == IF variant = "cli" THEN {"cli"} ELSE SessionIds

\* The step is a chat turn (talk or POST /api/chat that entered Ghost.chat).
IsChat == last'.op \in {"talk", "chat"} /\ last'.status \in {"ok", "error"}

\* The step is a rate call with a rating in 1..5.
IsRate == last'.op = "rate" /\ ValidRating(last'.arg)

IsPrefix(s, t) == Len(s) <= Len(t) /\ SubSeq(t, 1, Len(s)) = s

\* C1: after every completed turn the window of a session holds at most
\* WindowCap (20) entries, and it is the window before the turn followed by
\* the new user message and reply, cut to its last 20 entries: the oldest
\* entries are dropped and the most recent 10 exchanges stay in order.
C1_WindowBounded ==
    [][\A sid \in LiveSids :
          /\ Len(Window(sid))' <= WindowCap
          /\ sent'[sid] = sent[sid] + 1 =>
                Window(sid)' =
                    LastN(Window(sid) \o <<Msg("user", UserText(sid, sent'[sid])),
                                           Msg("assistant", ReplyText(sid, sent'[sid]))>>,
                          WindowCap)]_vars

\* An eleventh exchange has pushed the first one out of a full window.
C1_Witness ==
    \E sid \in LiveSids :
        /\ sent[sid] = 11
        /\ last.op \in {"talk", "chat"} /\ last.status = "ok"
        /\ Len(Window(sid)) = WindowCap
        /\ Window(sid)[1] = Msg("user", UserText(sid, 2))
        /\ Window(sid)[WindowCap] = Msg("assistant", ReplyText(sid, 11))

\* C2: a rate call with a rating in 1..5 on a session whose window holds at
\* least one exchange adds exactly one conversation record, and exactly one
\* insight when the rating is 4 or 5 and none when it is 1, 2 or 3.
C2_RateStores ==
    [][(IsRate /\ Len(Window(last'.sid)) >= 2) =>
          /\ Len(conversations') = Len(conversations) + 1
          /\ Len(knowledge') =
                Len(knowledge) + (IF last'.arg >= 4 THEN 1 ELSE 0)]_vars

\* On a fresh store, one turn and a rate of 5 leave one record and one insight.
C2_Witness ==
    /\ last.op = "rate" /\ last.arg = 5
    /\ sent[last.sid] = 1 /\ Len(Window(last.sid)) = 2
    /\ Len(conversations) = 1 /\ Len(knowledge) = 1

\* C3: a rate call on a session whose window is empty or of odd length
\* answers "No response to rate yet." and adds no record and no insight.
C3_NothingToRate ==
    [][\A t \in Threads :
          (pc[t] = "r_len" /\ pc'[t] # "r_len"
             /\ (Len(heap[loc[t].session]) = 0 \/ Len(heap[loc[t].session]) % 2 = 1)) =>
            /\ pc'[t] = "idle"
            /\ last' = [op |-> "rate", status |-> "No response to rate yet.",
                        sid |-> req[t].sid, arg |-> req[t].rating]
            /\ conversations' = conversations /\ knowledge' = knowledge]_vars

\* C4: a chat turn whose completion call fails reports the error to the
\* caller and leaves every session window exactly as it was before the turn:
\* the user message is not appended.
C4_FailedTurnKeepsWindow ==
    [][used'.fails = used.fails + 1 =>
          /\ last'.op \in {"talk", "chat"} /\ last'.status = "error"
          /\ \A sid \in LiveSids : Window(sid)' = Window(sid)]_vars

\* A completion has failed after one completed exchange, which is still the
\* whole window.
C4_Witness ==
    /\ last.op \in {"talk", "chat"} /\ last.status = "error"
    /\ used.fails = 1
    /\ sent[last.sid] = 1
    /\ Window(last.sid) = <<Msg("user", UserText(last.sid, 1)),
                            Msg("assistant", ReplyText(last.sid, 1))>>

\* C5: a chat turn never adds a conversation record or an insight, whatever
\* was asked and answered; the two counts change only in a rate call.
C5_ChatStoresNothing ==
    [][/\ IsChat => (conversations' = conversations /\ knowledge' = knowledge)
       /\ (Len(conversations') # Len(conversations) \/ Len(knowledge') # Len(knowledge))
             => last'.op = "rate"]_vars

\* A turn has completed on top of a store that holds a record and an insight.
C5_Witness ==
    /\ last.op \in {"talk", "chat"} /\ last.status = "ok"
    /\ sent[last.sid] = 2 /\ Len(Window(last.sid)) = 4
    /\ Len(conversations) = 1 /\ Len(knowledge) = 1

\* C6: clear empties the window of the session it is given and leaves the
\* number of conversation records, the number of insights and the profile
\* as they were.
C6_ClearKeepsMemory ==
    [][last'.op = "clear" =>
          /\ \A sid \in LiveSids : sid = last'.sid => Window(sid)' = <<>>
          /\ Len(conversations') = Len(conversations)
          /\ Len(knowledge') = Len(knowledge)
          /\ profile' = profile]_vars

\* A session with two exchanges, one of them rated 4 or 5, has been cleared.
C6_Witness ==
    /\ last.op = "clear" /\ Window(last.sid) = <<>>
    /\ sent[last.sid] = 2
    /\ Len(conversations) >= 1 /\ Len(knowledge) >= 1
    /\ profile.d["total_chats"].i = 2

\* C7: recall returns at most min(limit, number of stored records) memories;
\* on an empty store it returns the empty sequence and the search engine is
\* not asked.
C7_RecallBounded ==
    last.op = "recall" =>
        /\ Len(last.recall.memories) <= Min(last.limit, last.stored)
        /\ last.stored = 0 => (last.recall.memories = <<>> /\ ~last.recall.queried)

\* A recall asked for more memories than the store holds.
C7_Witness ==
    /\ last.op = "recall"
    /\ last.stored > 0 /\ last.limit > last.stored
    /\ last.recall.queried /\ Len(last.recall.memories) = last.stored

\* The most characters of one memory's content the variant puts in a context.
MemoryChars == IF variant = "cli" THEN CliMemoryChars ELSE WebMemoryChars

\* C8: the context of a turn starts with the profile block; after it come at
\* most ContextLimit (3) memory blocks, the memories recalled in rank order,
\* each with at most 400 (ghost.py) or 300 (ghost_web.py) characters of the
\* memory's content; so the context has at most 2 + ContextLimit blocks
\* however many records the store holds.
C8_ContextBounded ==
    (last.op \in {"talk", "chat"} /\ last.status \in {"ok", "error"}) =>
        LET ctx == last.context
            mems == last.recall.memories
            blocks == {i \in DOMAIN ctx : ctx[i].kind = "memory"}
        IN /\ ctx[1].kind = "profile" /\ ctx[1].json = JsonDump(profile)
           /\ \A i \in 2..Len(ctx) : ctx[i].kind # "profile"
           /\ Cardinality(blocks) <= ContextLimit
           /\ Cardinality(blocks) = Len(mems)
           /\ Len(ctx) <= 2 + ContextLimit
           /\ \A i \in DOMAIN mems :
                 /\ ctx[2 + i].kind = "memory"
                 /\ ctx[2 + i].content = Take(mems[i].content, MemoryChars)
                 /\ TLen(ctx[2 + i].content) <= MemoryChars

\* A turn on a store of more than ContextLimit records: three memory blocks,
\* one of them cut to the limit.
C8_Witness ==
    /\ last.op \in {"talk", "chat"} /\ last.status = "ok"
    /\ last.stored > ContextLimit
    /\ Len(last.context) = 2 + ContextLimit
    /\ \E i \in DOMAIN last.recall.memories :
          /\ TLen(last.recall.memories[i].content) > MemoryChars
          /\ TLen(last.context[2 + i].content) = MemoryChars

\* UserProfile.load of the variant on the profile file.
Load(file) == IF variant = "cli" THEN CliLoad(file, now) ELSE WebLoadProfile(file, now)

C10_MemoryAppendOnly ==
    [][IsPrefix(conversations, conversations') /\ IsPrefix(knowledge, knowledge')]_vars

\* Two rate calls with a turn and a clear between them left both records
\* and an insight in the store.
C10_Witness ==
    /\ Len(conversations) = 2 /\ Len(knowledge) >= 1
    /\ last.op = "rate"
    /\ sent[last.sid] = 2
    /\ Len(Window(last.sid)) = 2

\* C11: any two conversation records created by add_conversation get distinct
\* ids, also when both are created in the same clock instant, so every call
\* that has returned left a record of its own in the store: the store holds
\* as many records as add_conversation was called.
C11_DistinctIds ==
    /\ Len(conversations) = used.rates
    /\ \A i, j \in DOMAIN conversations : i # j => conversations[i].id # conversations[j].id

\* Every user message of the window is immediately followed by its own reply.
Paired(win, sid) ==
    /\ Len(win) % 2 = 0
    /\ \A i \in 1..(Len(win) \div 2) :
          \E k \in 1..limits.turns :
              /\ win[2 * i - 1] = Msg("user", UserText(sid, k))
              /\ win[2 * i] = Msg("assistant", ReplyText(sid, k))

\* C12: chat turns that run at once on one session id have their window
\* mutations serialized: once they have all returned, the window is what
\* running them one after the other gives, so each user message in it is
\* immediately followed by its own assistant response.
C12_TurnsSerialized ==
    AllIdle => \A sid \in SessionIds : Paired(WebWindow(sid), sid)

\* C13: the chat-count increment is atomic: once N chat turns that ran at
\* once have all returned, total_chats in memory and in the profile file is
\* the initial value (0) plus N.
C13_NoLostUpdate ==
    (AllIdle /\ disk # NoFile) =>
        /\ WebTotalChats(profile) = TotalSent + used.fails
        /\ WebTotalChats(WebLoadProfile(disk, now)) = TotalSent + used.fails

\* The last operation changes the profile: the chat-count increment of a
\* turn, a field update, a preference or an expertise area.
MutatedProfile ==
    \/ last.op \in {"talk", "chat"} /\ last.status \in {"ok", "error"}
    \/ last.op = "update"

\* C14: every operation that changes the profile saves it before it returns:
\* once such an operation has returned, the profile file exists and holds
\* the profile in memory.
C14_SavedWhenReturned ==
    MutatedProfile => (disk # NoFile /\ disk = JsonDump(profile) /\ Load(disk) = profile)

\* ghost_web.py has added a preference and an expertise area after a turn.
C14_Witness ==
    /\ variant = "web" /\ last.op = "update"
    /\ "tone" \in DOMAIN profile.d["preferences"].d
    /\ profile.d["expertise_areas"].l = <<PyStr("tla")>>
    /\ WebTotalChats(profile) = OldTurns + 1
    /\ Load(disk) = profile

\* C15: a rate request whose rating is missing or outside 1..5 is answered
\* with an error (status 400 by ghost_web.py, the usage or the range message
\* by ghost.py) and changes nothing: no conversation record, no insight, no
\* window and no session registered.
C15_InvalidRatingRefused ==
    [][(last'.op = "rate" /\ ~ValidRating(last'.arg)) =>
          /\ last'.status = IF variant = "web" THEN "400"
                             ELSE IF last'.arg = NoArg THEN "usage" ELSE "range"
          /\ conversations' = conversations /\ knowledge' = knowledge
          /\ \A sid \in LiveSids : Window(sid)' = Window(sid)
          /\ sessions' = sessions /\ profile' = profile]_vars

\* A rating of 6 was refused on a session that holds an exchange to rate, and
\* the store is still empty.
C15_Witness ==
    /\ last.op = "rate" /\ last.arg = MaxRating + 1
    /\ last.status \in {"400", "range"}
    /\ Len(Window(last.sid)) = 2
    /\ conversations = <<>> /\ knowledge = <<>>

\* The text stored for an exchange: f"User: {u}\n\nGhost: {g}" in ghost.py,
\* f"User: {u}\nGhost: {g}" in ghost_web.py.
Exchange(sid, k) ==
    Lit("User: ", 6) \o UserText(sid, k)
        \o (IF variant = "cli" THEN Lit("\n\nGhost: ", 9) ELSE Lit("\nGhost: ", 8))
        \o ReplyText(sid, k)

\* The rate call of the step stored a record.
RateStored == IsRate /\ last'.status \in {"remember", "learn", "saved"}

\* C16: a successful rate(r, s) stores one record whose user text and
\* assistant text are those of the most recently completed turn of session s
\* and whose rating is r, and leaves the window of s unchanged.
C16_RateStoresLastPair ==
    [][RateStored =>
          LET sid == last'.sid
              rec == conversations'[Len(conversations')]
          IN /\ conversations' = Append(conversations, rec)
             /\ rec.document = Exchange(sid, sent[sid])
             /\ rec.metadata.rating = ToString(last'.arg)
             /\ \A s \in LiveSids : Window(s)' = Window(s)]_vars

\* The second of two exchanges of a session has been rated.
C16_Witness ==
    /\ last.op = "rate" /\ last.status \in {"remember", "learn", "saved"}
    /\ sent[last.sid] = 2 /\ Len(Window(last.sid)) = 4
    /\ Len(conversations) = 1
    /\ conversations[1].document = Exchange(last.sid, 2)
    /\ conversations[1].metadata.rating = ToString(last.arg)

\* C17: a session id entered in the registry (by get_session in a chat or a
\* rate call) stays in it in every later state of the running process, and
\* clear_session leaves it there with an empty window.
C17_SessionStays ==
    [][last'.op # "restart" =>
          \A sid \in SessionIds :
              /\ sessions[sid] # 0 => sessions'[sid] # 0
              /\ ((IsChat \/ (IsRate /\ last'.status # "400")) /\ last'.sid = sid)
                    => sessions'[sid] # 0
              /\ (last'.op = "clear" /\ last'.sid = sid /\ sessions[sid] # 0)
                    => (sessions'[sid] # 0 /\ WebWindow(sid)' = <<>>)]_vars

\* A session that held two exchanges has been cleared and is still registered.
C17_Witness ==
    /\ variant = "web" /\ last.op = "clear"
    /\ sent[last.sid] = 2
    /\ sessions[last.sid] # 0 /\ WebWindow(last.sid) = <<>>

\* C18: when recall returns no memories for a turn the context is the profile
\* block alone, with no header of the memories section; the header is there
\* (once, right after the profile block) exactly when a memory is returned.
C18_HeaderOnlyWithMemories ==
    (last.op \in {"talk", "chat"} /\ last.status \in {"ok", "error"}) =>
        LET ctx == last.context
            headers == {i \in DOMAIN ctx : ctx[i].kind = "header"}
        IN /\ last.recall.memories = <<>> => (Len(ctx) = 1 /\ ctx[1].kind = "profile")
           /\ last.recall.memories # <<>> => headers = {2}
           /\ headers # {} => last.recall.memories # <<>>

\* A turn on an empty store: its context is the profile block.
C18_Witness ==
    /\ last.op \in {"talk", "chat"} /\ last.status = "ok"
    /\ last.stored = 0 /\ last.recall.memories = <<>>
    /\ Len(last.context) = 1 /\ last.context[1].kind = "profile"

\* total_chats of the profile in memory, and of the profile file.
TotalChats == IF variant = "cli" THEN profile.d["total_chats"].i ELSE WebTotalChats(profile)

SavedChats == IF disk = NoFile THEN 0 ELSE Load(disk).d["total_chats"].i

\* C19: total_chats counts attempted turns: every chat turn adds exactly 1 to
\* it and the file holds the new count also when the completion call of the
\* turn fails; no operation ever decreases it.
C19_TotalChatsMonotonic ==
    [][/\ IsChat => (TotalChats' = TotalChats + 1 /\ SavedChats' = TotalChats')
       /\ TotalChats' >= TotalChats
       /\ SavedChats' >= SavedChats]_vars

\* The only turn so far failed, and it is counted in memory and in the file.
C19_Witness ==
    /\ last.op \in {"talk", "chat"} /\ last.status = "error"
    /\ sent[last.sid] = 0 /\ used.fails = 1
    /\ TotalChats = 1 /\ SavedChats = 1

\* C20: session windows are independent per session id: in every
\* interleaving of requests on distinct session ids, the window of a session
\* (and whether it is registered) changes only in a step of a chat or rate
\* request on that session id or in a clear of that session id.
C20_WindowsIndependent ==
    [][\A sid \in SessionIds :
          (WebWindow(sid)' # WebWindow(sid) \/ (sessions'[sid] = 0) # (sessions[sid] = 0)) =>
            \/ \E t \in Threads : pc[t] # "idle" /\ pc'[t] # pc[t] /\ req[t].sid = sid
            \/ pc' = pc /\ last'.op = "clear" /\ last'.sid = sid]_vars

\* Two chat requests on different session ids are both past their first
\* append, each window holding its own user message.
C20_Witness ==
    /\ pc[1] = "c_ai" /\ pc[2] = "c_ai"
    /\ req[1].sid # req[2].sid
    /\ \A t \in 1..2 :
          WebWindow(req[t].sid) = <<Msg("user", UserText(req[t].sid, req[t].k))>>

\* The roles of the window are user, assistant, user, assistant, ...
Alternates(win) ==
    \A i \in DOMAIN win : win[i].role = (IF i % 2 = 1 THEN "user" ELSE "assistant")

\* C21: with operations executed one at a time, every session window has
\* even length and its roles strictly alternate, starting with user, also
\* right after the cut to 20 entries; so the test len >= 2 of rate is the same
\* as "not empty and of even length".
C21_WindowAlternates ==
    \A sid \in LiveSids :
        /\ Len(Window(sid)) % 2 = 0
        /\ Alternates(Window(sid))
        /\ (Len(Window(sid)) >= 2) <=> (Window(sid) # <<>> /\ Len(Window(sid)) % 2 = 0)

\* The window right after the cut that the eleventh exchange caused.
C21_Witness ==
    \E sid \in LiveSids :
        /\ sent[sid] = 11 /\ Len(Window(sid)) = WindowCap
        /\ Window(sid)[1].role = "user"
        /\ Window(sid)[1].content = UserText(sid, 2)
        /\ Window(sid)[WindowCap].role = "assistant"

\* C22: if clear_session(s) completes while a chat turn on s is waiting for
\* the completion call, then when that turn finishes the window of s holds
\* only the two messages of that turn: nothing from before the clear is in
\* the window again.  (The turn's list is no longer the registered one
\* exactly when the session was cleared during the wait.)
C22_ClearedStaysCleared ==
    [][\A t \in Threads, sid \in SessionIds, k \in 1..ClearTurns :
          (pc[t] = "c_assign" /\ pc'[t] = "idle"
             /\ req[t].sid = sid /\ req[t].k = k
             /\ loc[t].session # sessions[sid]) =>
            WebWindow(sid)' = <<Msg("user", UserText(sid, k)),
                                Msg("assistant", ReplyText(sid, k))>>]_vars

\* The exchange that a rate call on session sid rates is already stored.
AlreadyRated(sid) ==
    \E i \in DOMAIN conversations : conversations[i].document = Exchange(sid, sent[sid])

\* C23: rate is not deduplicated.  A rate call that finds a ratable window
\* whose exchange is already stored (calls made at distinct clock instants)
\* still adds one new record of that exchange under an id no stored record
\* has, and one insight exactly when its rating is 4 or 5; so k rate calls
\* in a row after one turn leave k records of the one exchange.
C23_RateNotDeduplicated ==
    [][\A sid \in LiveSids :
          (RateStored /\ last'.sid = sid /\ AlreadyRated(sid)) =>
            LET rec == conversations'[Len(conversations')]
            IN /\ conversations' = Append(conversations, rec)
               /\ rec.document = Exchange(sid, sent[sid])
               /\ \A i \in DOMAIN conversations : conversations[i].id # rec.id
               /\ Len(knowledge') =
                     Len(knowledge) + (IF last'.arg >= InsightThreshold THEN 1 ELSE 0)]_vars

\* One turn, then rated 5 twice on a fresh store: two records of the one
\* exchange under two ids, and two insights.
C23_Witness ==
    /\ last.op = "rate" /\ last.arg = 5
    /\ sent[last.sid] = 1 /\ Len(Window(last.sid)) = 2
    /\ Len(conversations) = 2
    /\ conversations[1].document = Exchange(last.sid, 1)
    /\ conversations[2].document = Exchange(last.sid, 1)
    /\ conversations[1].id # conversations[2].id
    /\ conversations[1].metadata.rating = "5"
    /\ conversations[2].metadata.rating = "5"
    /\ Len(knowledge) = 2

====
